---- MODULE Spec2Model ----
(***************************************************************************)
(* Lazyplug (drivers/soc/samsung/lazyplug.c): the CPU hotplug controller.  *)
(* The tier lookup (calculate_thread_stats) is an operator; the periodic   *)
(* work item, the forced-scale work items, the framebuffer notifier, the   *)
(* lazy-mode entry point and the module parameters are actions over the    *)
(* driver's globals.                                                       *)
(***************************************************************************)
EXTENDS Integers, Sequences, FiniteSets, TLC

\* ---------------------------------------------------------------- constants

DEF_SAMPLING_MS == 132
DEF_IDLE_COUNT == 19
BUSY_PERSISTENCE == 3500 \div DEF_SAMPLING_MS

CAPACITY_RESERVE == 50
THREAD_CAPACITY == 520 - CAPACITY_RESERVE
MULT_FACTOR == 4
DIV_FACTOR == 100000

\* FSHIFT of <linux/sched.h>: bits of precision of the load averages.
FSHIFT == 11
\* NR_CPUS / nr_cpu_ids of the Exynos 7870 build: cpu_down(7) is the top core.
NR_CPUS == 8
nr_cpu_ids == NR_CPUS

\* The sentinel that ends every threshold table.  The scan stops one entry
\* short of it, so it is a marker here: evaluating arithmetic on it is an error.
UINT_MAX == "UINT_MAX"

NR_RUN_ECO_MODE_PROFILE == 3
NR_RUN_HYSTERESIS_OCTA == 16
NR_RUN_HYSTERESIS_HEXA == 12
NR_RUN_HYSTERESIS_QUAD == 8
NR_RUN_HYSTERESIS_DUAL == 4
LAZY_PROFILE == 6

\* ---------------------------------------------------------- threshold tables

Threshold(permille) == (THREAD_CAPACITY * permille * MULT_FACTOR) \div DIV_FACTOR

nr_run_thresholds_balance == << Threshold(625), Threshold(875), Threshold(1125), UINT_MAX >>
nr_run_thresholds_performance == << Threshold(380), Threshold(625), Threshold(875), UINT_MAX >>
nr_run_thresholds_conservative == << Threshold(875), Threshold(1625), Threshold(2125), UINT_MAX >>
nr_run_thresholds_eco == << Threshold(380), UINT_MAX >>
nr_run_thresholds_eco_extreme == << Threshold(750), UINT_MAX >>
nr_run_thresholds_disable == << 0, 0, 0, UINT_MAX >>
nr_run_thresholds_lazy == << Threshold(995), Threshold(1875), Threshold(2350), UINT_MAX >>

\* nr_run_profiles[sel] of the code is nr_run_profiles[sel + 1] here.
nr_run_profiles ==
  << nr_run_thresholds_balance, nr_run_thresholds_performance,
     nr_run_thresholds_conservative, nr_run_thresholds_eco,
     nr_run_thresholds_eco_extreme, nr_run_thresholds_disable,
     nr_run_thresholds_lazy >>

NrProfiles == Len(nr_run_profiles)
Profiles == 0 .. (NrProfiles - 1)

\* ------------------------------------------------- calculate_thread_stats

\* threshold_size: ARRAY_SIZE of the eco table for every selector >= 3.
threshold_size(sel) ==
  IF sel >= NR_RUN_ECO_MODE_PROFILE
    THEN Len(nr_run_thresholds_eco)
    ELSE Len(nr_run_thresholds_balance)

\* nr_fshift as calculate_thread_stats sets it.
nr_fshift(sel) == IF sel >= NR_RUN_ECO_MODE_PROFILE THEN 1 ELSE 3

\* x << (FSHIFT - nr_fshift).  The tables, the four hysteresis constants and the
\* shift stay below 2^16, far from the width of unsigned int.
ShiftLeft(x, sel) == x * 2^(FSHIFT - nr_fshift(sel))

\* The hysteresis added when nr_run_last >= nr_run instead.
nr_threshold_reversed(sel, nr_run, last, hyst) ==
  LET base == nr_run_profiles[sel + 1][nr_run]
  IN  IF last >= nr_run THEN base + hyst ELSE base

\* The hysteresis added only when nr_run_last < nr_run.
nr_threshold_above_last(sel, nr_run, last, hyst) ==
  LET base == nr_run_profiles[sel + 1][nr_run]
  IN  IF last < nr_run THEN base + hyst ELSE base

\* One threshold of the scan: hysteresis is added when nr_run_last <= nr_run.
nr_threshold(sel, nr_run, last, hyst) ==
  LET base == nr_run_profiles[sel + 1][nr_run]
  IN  IF last <= nr_run THEN base + hyst ELSE base

\* The scan with avg_nr_run < threshold in place of <=.
RECURSIVE ScanTiers_strict(_, _, _, _, _)
ScanTiers_strict(sel, nr_run, last, hyst, avg_nr_run) ==
  IF nr_run >= threshold_size(sel)
    THEN nr_run
    ELSE IF avg_nr_run < ShiftLeft(nr_threshold(sel, nr_run, last, hyst), sel)
           THEN nr_run
           ELSE ScanTiers_strict(sel, nr_run + 1, last, hyst, avg_nr_run)

\* The for loop of calculate_thread_stats from nr_run on.
RECURSIVE ScanTiers(_, _, _, _, _)
ScanTiers(sel, nr_run, last, hyst, avg_nr_run) ==
  IF nr_run >= threshold_size(sel)
    THEN nr_run
    ELSE IF avg_nr_run <= ShiftLeft(nr_threshold(sel, nr_run, last, hyst), sel)
           THEN nr_run
           ELSE ScanTiers(sel, nr_run + 1, last, hyst, avg_nr_run)

\* The value calculate_thread_stats returns and stores in nr_run_last.
\* The lookup returning the index of the tier, counted from 0.
calculate_thread_stats_from_zero(sel, last, hyst, avg_nr_run) ==
  ScanTiers(sel, 1, last, hyst, avg_nr_run) - 1

calculate_thread_stats(sel, last, hyst, avg_nr_run) ==
  ScanTiers(sel, 1, last, hyst, avg_nr_run)

\* -------------------------------------------------------------------- state

VARIABLES
  lazyplug_active,      \* module parameter, 0 or 1
  nr_run_profile_sel,   \* module parameter: index into nr_run_profiles
  nr_possible_cores,    \* module parameter: the administrative cap
  nr_run_hysteresis,    \* module parameter, set by lazyplug_init
  persist_count,
  suspended,
  cac_bool,
  lazymode,
  nr_run_last,
  idle_count,
  Lnr_run_profile_sel,  \* the selector lazyplug_enter_lazy saved
  online,               \* cpu_online_mask
  lazyplug_work,        \* the delayed work: "none", "timer" (delay running) or "queued"
  lazyplug_cac,         \* the delayed work: "none", "timer" or "queued"
  cpu_all_up_work,      \* pending on system_wq
  work_pc,              \* where lazyplug_work_fn stands: "idle", "decide", "count", "down", "up"
  cpu_count,            \* lazyplug_work_fn's local
  persist_read,         \* persist_count as lazyplug_work_fn loaded it
  idle_read,            \* idle_count as lazyplug_work_fn loaded it
  fb_pc,                \* where the framebuffer notifier stands
  avg_nr_run,           \* the sample of the last lookup
  last_before,          \* history: nr_run_last before the last lookup
  cmds,                 \* history: the hotplug requests of the last step, in order
  cmd_by,               \* history: the code path that issued cmds
  sel_before_lazy,      \* history: the selector when lazy mode was last entered
  nr_ticks,             \* history: executions of lazyplug_work_fn started
  nr_events,            \* history: external events delivered
  nr_lookups,           \* history: lookups of the evaluation harness
  hotplug_fail,         \* the cpus for which cpu_up() and cpu_down() return an error
  ctrl_todo             \* the requests a cpu_all_ctrl() in progress has yet to issue

vars ==
  << lazyplug_active, nr_run_profile_sel, nr_possible_cores, nr_run_hysteresis,
     persist_count, suspended, cac_bool, lazymode, nr_run_last, idle_count,
     Lnr_run_profile_sel, online, lazyplug_work, lazyplug_cac, cpu_all_up_work,
     work_pc, cpu_count, persist_read, idle_read, fb_pc, avg_nr_run, last_before, cmds, cmd_by,
     sel_before_lazy, nr_ticks, nr_events, nr_lookups, hotplug_fail, ctrl_todo >>

params == << lazyplug_active, nr_run_profile_sel, nr_possible_cores, nr_run_hysteresis >>
counters == << persist_count, idle_count >>
lazyvars == << lazymode, Lnr_run_profile_sel, sel_before_lazy >>
lookupvars == << nr_run_last, avg_nr_run, last_before >>
workvars == << work_pc, cpu_count, persist_read, idle_read >>
hist == << nr_ticks, nr_events, nr_lookups >>

\* -------------------------------------------------------------------- bounds

MaxTicks == 2
MaxEvents == 3
MaxLookups == 2

CPUs == 0 .. (nr_cpu_ids - 1)

\* Load samples fed to the periodic work (Lavg_nr_running, FSHIFT fixed point):
\* idle, inside the hysteresis band of the 4-tier profiles, and saturated.
Samples == { 0, 5000, 2^20 }

\* Values written to the module parameters.
ActiveWrites == { 0, 1 }
ProfileWrites == { 0, NR_RUN_ECO_MODE_PROFILE }
CoreWrites == { 4, NR_CPUS }

\* ------------------------------------------------------------ hotplug requests

Up(cpu) == << "up", cpu >>
Down(cpu) == << "down", cpu >>

\* cpu_up / cpu_down applied in order to the online mask.  A request that
\* returns an error leaves the mask as it is; no caller looks at the return
\* value.
RECURSIVE Apply(_, _)
Apply(mask, requests) ==
  IF requests = << >>
    THEN mask
    ELSE Apply(IF Head(requests)[2] \in hotplug_fail
                 THEN mask
                 ELSE IF Head(requests)[1] = "up"
                   THEN mask \cup { Head(requests)[2] }
                   ELSE mask \ { Head(requests)[2] },
               Tail(requests))

\* cpu_down(hi), cpu_down(hi - 1), ..., cpu_down(lo)
DownFrom(hi, lo) == [ i \in 1 .. (hi - lo + 1) |-> Down(hi - i + 1) ]

\* cpu_up(lo), ..., cpu_up(hi)
UpTo(lo, hi) == [ i \in 1 .. (hi - lo + 1) |-> Up(lo + i - 1) ]

\* cpu_all_ctrl with the online loop ending one core early (cpu < nr_cpu_ids - 1).
cpu_all_ctrl_one_short(on, lazy) ==
  IF on
    THEN IF lazy THEN UpTo(1, 3) ELSE UpTo(1, nr_cpu_ids - 2)
    ELSE DownFrom(nr_cpu_ids - 1, 2)

\* cpu_all_ctrl without the lazymode branch.
cpu_all_ctrl_ignores_lazy(on, lazy) ==
  IF on THEN UpTo(1, nr_cpu_ids - 1) ELSE DownFrom(nr_cpu_ids - 1, 2)

\* cpu_all_ctrl(on), with lazymode as it reads it.
cpu_all_ctrl(on, lazy) ==
  IF on
    THEN IF lazy THEN UpTo(1, 3) ELSE UpTo(1, nr_cpu_ids - 1)
    ELSE DownFrom(nr_cpu_ids - 1, 2)

\* The scan of set_cpus going on to cpu 0 (cpu >= 0).
RECURSIVE CapScan_to_zero(_, _, _)
CapScan_to_zero(cpu, mask, cap) ==
  IF cpu < 0
    THEN << >>
    ELSE (IF cpu \in mask /\ cpu >= cap THEN << Down(cpu) >> ELSE << >>)
           \o CapScan_to_zero(cpu - 1, mask, cap)

\* The scan of set_cpus sparing the core whose index is the cap (cpu > cap).
RECURSIVE CapScan_above_cap(_, _, _)
CapScan_above_cap(cpu, mask, cap) ==
  IF cpu < 1
    THEN << >>
    ELSE (IF cpu \in mask /\ cpu > cap THEN << Down(cpu) >> ELSE << >>)
           \o CapScan_above_cap(cpu - 1, mask, cap)

\* The online cores at or above the cap, from the biggest down to cpu 1.
RECURSIVE CapScan(_, _, _)
CapScan(cpu, mask, cap) ==
  IF cpu < 1
    THEN << >>
    ELSE (IF cpu \in mask /\ cpu >= cap THEN << Down(cpu) >> ELSE << >>)
           \o CapScan(cpu - 1, mask, cap)

\* set_cpus()
set_cpus(mask, cap) == CapScan(nr_cpu_ids - 1, mask, cap)

\* The idle path stopping at cpu 3.
idle_down_spares_cpu2 == DownFrom(7, 3)

\* The idle path of lazyplug_work_fn: cpu_down(7) ... cpu_down(2).
idle_down == DownFrom(7, 2)

\* lazyplug_enter_lazy(true): cpu_down_nocheck(7) ... cpu_down_nocheck(2).
lazy_down == DownFrom(7, 2)

\* queue_delayed_work replacing the timer of a pending work (mod_delayed_work).
queue_delayed_work_requeues(w, delay) == IF delay = 0 THEN "queued" ELSE "timer"

\* queue_delayed_work: nothing when the work is already pending.
queue_delayed_work(w, delay) ==
  IF w # "none" THEN w ELSE IF delay = 0 THEN "queued" ELSE "timer"

\* ------------------------------------------------------------- initial state

\* A state of the driver with no work running and no event in progress: every
\* global as given, the periodic work queued with a delay.
Configured(active, sel, cores, hyst, persist, susp, lazy, last, idle, mask) ==
  /\ lazyplug_active = active
  /\ nr_run_profile_sel = sel
  /\ nr_possible_cores = cores
  /\ nr_run_hysteresis = hyst
  /\ persist_count = persist
  /\ suspended = susp
  /\ cac_bool = TRUE
  /\ lazymode = lazy
  /\ nr_run_last = last
  /\ idle_count = idle
  /\ Lnr_run_profile_sel = 0
  /\ online = mask
  /\ lazyplug_work = "timer"
  /\ lazyplug_cac = "none"
  /\ cpu_all_up_work = FALSE
  /\ work_pc = "idle"
  /\ cpu_count = 0
  /\ persist_read = 0
  /\ idle_read = 0
  /\ fb_pc = "idle"
  /\ avg_nr_run = 0
  /\ last_before = 0
  /\ cmds = << >>
  /\ cmd_by = "none"
  /\ sel_before_lazy = 0
  /\ nr_ticks = 0
  /\ nr_events = 0
  /\ nr_lookups = 0
  /\ hotplug_fail = { }
  /\ ctrl_todo = << >>

\* The state lazyplug_init leaves with eight possible cores (the OCTA hysteresis
\* and the balance profile), at boot or after `idle` periodic runs that each
\* sampled an idle system.
Booted(idle) ==
  Configured(1, 0, NR_CPUS, NR_RUN_HYSTERESIS_OCTA, 0, FALSE, FALSE,
             IF idle = 0 THEN 0 ELSE 1, idle, CPUs)

\* Idle runs already behind the controller in the initial states.
IdleStarts == { 0, DEF_IDLE_COUNT - 2 }

Init == \E idle \in IdleStarts : Booted(idle)

\* ------------------------------------------------------- lazyplug_work_fn

\* The outcomes of the lookup: the table scan, or, for a selector outside the
\* profile table, a scan of whatever memory lies behind it.
LookupOutcomes(sel, last, hyst, avg) ==
  IF sel \in Profiles
    THEN { calculate_thread_stats(sel, last, hyst, avg) }
    ELSE 1 .. threshold_size(sel)

\* Entry: the lookup, update_per_cpu_stat (per-cpu statistics nothing reads),
\* and set_cpus() when NR_CPUS > nr_possible_cores.  A disabled controller
\* only requeues itself.
WorkStart(avg) ==
  /\ lazyplug_work # "none"
  /\ work_pc = "idle"
  /\ nr_ticks' = nr_ticks + 1
  /\ IF lazyplug_active = 0
       THEN /\ lazyplug_work' = queue_delayed_work("none", DEF_SAMPLING_MS)
            /\ cmds' = << >>
            /\ cmd_by' = "none"
            /\ UNCHANGED << lookupvars, workvars, online >>
       ELSE \E tier \in LookupOutcomes(nr_run_profile_sel, nr_run_last,
                                       nr_run_hysteresis, avg) :
              LET capped == IF NR_CPUS > nr_possible_cores
                              THEN set_cpus(online, nr_possible_cores)
                              ELSE << >>
              IN  /\ lazyplug_work' = "none"
                  /\ avg_nr_run' = avg
                  /\ last_before' = nr_run_last
                  /\ nr_run_last' = tier
                  /\ cpu_count' = tier
                  /\ cmds' = capped
                  /\ cmd_by' = (IF capped = << >> THEN "none" ELSE "set_cpus")
                  /\ online' = Apply(online, capped)
                  /\ work_pc' = "decide"
  /\ UNCHANGED << params, counters, suspended, cac_bool, lazyvars, lazyplug_cac,
                  cpu_all_up_work, persist_read, idle_read, fb_pc, nr_events,
                  nr_lookups,
                  hotplug_fail, ctrl_todo >>

\* if (persist_count > 0) persist_count--;
persist_next(persist) == IF persist > 0 THEN persist - 1 ELSE persist

\* The idle count advancing by two per run.
idle_next_by_two(idle) == IF idle < DEF_IDLE_COUNT - 1 THEN idle + 2 ELSE DEF_IDLE_COUNT

\* if (idle_count < DEF_IDLE_COUNT) idle_count++;
idle_next(idle) == IF idle < DEF_IDLE_COUNT THEN idle + 1 ELSE idle

\* The idle path one run before the idle count is full.
idle_shutdown_early(idle, persist) == idle >= DEF_IDLE_COUNT - 1 /\ persist = 0

\* The idle path taken whatever is left of the persistence countdown.
idle_shutdown_ignores_persist(idle, persist) == idle = DEF_IDLE_COUNT

\* idle_count == DEF_IDLE_COUNT && persist_count == 0
idle_shutdown(idle, persist) == idle = DEF_IDLE_COUNT /\ persist = 0

\* if (!suspended): a suspended run only requeues itself.  Otherwise the run
\* loads persist_count and idle_count; it holds no lock, so both can be written
\* by lazyplug_resume and fb_state_change before the run stores them back.
WorkRead ==
  /\ work_pc = "decide"
  /\ cmds' = << >>
  /\ cmd_by' = "none"
  /\ IF suspended
       THEN /\ work_pc' = "idle"
            /\ lazyplug_work' = queue_delayed_work(lazyplug_work, DEF_SAMPLING_MS)
            /\ UNCHANGED << persist_read, idle_read >>
       ELSE /\ work_pc' = "count"
            /\ persist_read' = persist_count
            /\ idle_read' = idle_count
            /\ UNCHANGED lazyplug_work
  /\ UNCHANGED << params, counters, suspended, cac_bool, lazyvars, lookupvars, online,
                  lazyplug_cac, cpu_all_up_work, cpu_count, fb_pc, hist,
                  hotplug_fail, ctrl_todo >>

\* The values a load of a counter can give: the one loaded at the test of
\* suspended (kept in a register) or the one in memory now.
Loaded(reg, mem) == { reg, mem }

\* The decision: the persistence countdown, the idle count and the choice
\* between the idle path and cpu_all_ctrl(true).  A counter is stored only when
\* its condition held for the value loaded; the test of line 352 sees the values
\* just computed or the ones in memory.  A run that has nothing to request
\* requeues itself here.
WorkDecide ==
  /\ work_pc = "count"
  /\ cmds' = << >>
  /\ cmd_by' = "none"
  /\ persist_read' = 0
  /\ idle_read' = 0
  /\ \E p \in Loaded(persist_read, persist_count), i \in Loaded(idle_read, idle_count) :
       /\ persist_count' = (IF p > 0 THEN persist_next(p) ELSE persist_count)
       /\ IF cpu_count = 1
            THEN /\ idle_count' = (IF i < DEF_IDLE_COUNT THEN idle_next(i) ELSE idle_count)
                 /\ \E persist \in Loaded(persist_next(p), persist_count'),
                       idle \in Loaded(idle_next(i), idle_count') :
                      IF idle_shutdown(idle, persist)
                        THEN /\ work_pc' = "down"
                             /\ UNCHANGED lazyplug_work
                        ELSE /\ work_pc' = "idle"
                             /\ lazyplug_work' =
                                  queue_delayed_work(lazyplug_work, DEF_SAMPLING_MS)
            ELSE /\ idle_count' = 0
                 /\ work_pc' = "up"
                 /\ UNCHANGED lazyplug_work
  /\ UNCHANGED << params, suspended, cac_bool, lazyvars, lookupvars, online,
                  lazyplug_cac, cpu_all_up_work, cpu_count, fb_pc, hist,
                  hotplug_fail, ctrl_todo >>

\* The requests the decision led to, then the requeue.
WorkAct ==
  /\ work_pc \in { "down", "up" }
  /\ cmds' = (IF work_pc = "down" THEN idle_down ELSE cpu_all_ctrl(TRUE, lazymode))
  /\ cmd_by' = (IF work_pc = "down" THEN "idle" ELSE "work_up")
  /\ online' = Apply(online, cmds')
  /\ work_pc' = "idle"
  /\ lazyplug_work' = queue_delayed_work(lazyplug_work, DEF_SAMPLING_MS)
  /\ UNCHANGED << params, counters, suspended, cac_bool, lazyvars, lookupvars,
                  lazyplug_cac, cpu_all_up_work, cpu_count, persist_read,
                  idle_read, fb_pc, hist,
                  hotplug_fail, ctrl_todo >>

\* ------------------------------------------- lazyplug_cac_fn and cpu_all_up

lazyplug_cac_fn ==
  /\ lazyplug_cac # "none"
  /\ lazyplug_cac' = "none"
  /\ cmds' = cpu_all_ctrl(cac_bool, lazymode)
  /\ cmd_by' = "cac"
  /\ online' = Apply(online, cmds')
  /\ UNCHANGED << params, counters, suspended, cac_bool, lazyvars, lookupvars,
                  lazyplug_work, cpu_all_up_work, workvars, fb_pc, hist,
                  hotplug_fail, ctrl_todo >>

cpu_all_up ==
  /\ cpu_all_up_work
  /\ cpu_all_up_work' = FALSE
  /\ cmds' = cpu_all_ctrl(TRUE, lazymode)
  /\ cmd_by' = "all_up"
  /\ online' = Apply(online, cmds')
  /\ UNCHANGED << params, counters, suspended, cac_bool, lazyvars, lookupvars,
                  lazyplug_work, lazyplug_cac, workvars, fb_pc, hist,
                  hotplug_fail, ctrl_todo >>

\* ------------------------------------------------------- fb_state_change

\* FB_BLANK_POWERDOWN: lazyplug_suspend() begins; it does nothing when the
\* controller is disabled.
FbPowerdown ==
  /\ fb_pc = "idle"
  /\ nr_events < MaxEvents
  /\ nr_events' = nr_events + 1
  /\ fb_pc' = (IF lazyplug_active # 0 THEN "flush" ELSE "idle")
  /\ cmds' = << >>
  /\ cmd_by' = "none"
  /\ UNCHANGED << params, counters, suspended, cac_bool, lazyvars, lookupvars, online,
                  lazyplug_work, lazyplug_cac, cpu_all_up_work, workvars,
                  nr_ticks, nr_lookups,
                  hotplug_fail, ctrl_todo >>

\* flush_workqueue waiting until lazyplug_work is not pending at all, timer
\* included.
SuspendFlush_waits_for_timer ==
  /\ fb_pc = "flush"
  /\ work_pc = "idle"
  /\ lazyplug_work = "none"
  /\ lazyplug_cac # "queued"
  /\ fb_pc' = "lock"
  /\ cmds' = << >>
  /\ cmd_by' = "none"
  /\ UNCHANGED << params, counters, suspended, cac_bool, lazyvars, lookupvars, online,
                  lazyplug_work, lazyplug_cac, cpu_all_up_work, workvars, hist,
                  hotplug_fail, ctrl_todo >>

\* flush_workqueue(lazyplug_wq) returns once no work of the queue is queued or
\* running (a delayed work whose timer still runs is not waited for).
SuspendFlush ==
  /\ fb_pc = "flush"
  /\ work_pc = "idle"
  /\ lazyplug_work # "queued"
  /\ lazyplug_cac # "queued"
  /\ fb_pc' = "lock"
  /\ cmds' = << >>
  /\ cmd_by' = "none"
  /\ UNCHANGED << params, counters, suspended, cac_bool, lazyvars, lookupvars, online,
                  lazyplug_work, lazyplug_cac, cpu_all_up_work, workvars, hist,
                  hotplug_fail, ctrl_todo >>

\* mutex_lock; suspended = true; mutex_unlock
SuspendSet ==
  /\ fb_pc = "lock"
  /\ suspended' = TRUE
  /\ fb_pc' = "cac"
  /\ cmds' = << >>
  /\ cmd_by' = "none"
  /\ UNCHANGED << params, counters, cac_bool, lazyvars, lookupvars, online,
                  lazyplug_work, lazyplug_cac, cpu_all_up_work, workvars, hist,
                  hotplug_fail, ctrl_todo >>

\* cac_bool = false; queue_delayed_work(lazyplug_wq, &lazyplug_cac, 0)
SuspendQueue ==
  /\ fb_pc = "cac"
  /\ cac_bool' = FALSE
  /\ lazyplug_cac' = queue_delayed_work(lazyplug_cac, 0)
  /\ fb_pc' = "idle"
  /\ cmds' = << >>
  /\ cmd_by' = "none"
  /\ UNCHANGED << params, counters, suspended, lazyvars, lookupvars, online,
                  lazyplug_work, cpu_all_up_work, workvars, hist,
                  hotplug_fail, ctrl_todo >>

\* FB_BLANK_UNBLANK: idle_count = 0, then lazyplug_resume(): the locked section
\* when the controller is active, only the requeue of the periodic work when not.
FbUnblank ==
  /\ fb_pc = "idle"
  /\ nr_events < MaxEvents
  /\ nr_events' = nr_events + 1
  /\ idle_count' = 0
  /\ IF lazyplug_active # 0
       THEN /\ persist_count' = BUSY_PERSISTENCE
            /\ suspended' = FALSE
            /\ fb_pc' = "resume"
            /\ UNCHANGED lazyplug_work
       ELSE /\ lazyplug_work' = queue_delayed_work(lazyplug_work, 0)
            /\ UNCHANGED << persist_count, suspended, fb_pc >>
  /\ cmds' = << >>
  /\ cmd_by' = "none"
  /\ UNCHANGED << params, cac_bool, lazyvars, lookupvars, online, lazyplug_cac,
                  cpu_all_up_work, workvars, nr_ticks, nr_lookups,
                  hotplug_fail, ctrl_todo >>

\* schedule_work(&cpu_all_up_work); cac_bool = true; the two queue_delayed_work
ResumeQueue ==
  /\ fb_pc = "resume"
  /\ cpu_all_up_work' = TRUE
  /\ cac_bool' = TRUE
  /\ lazyplug_cac' = queue_delayed_work(lazyplug_cac, 10)
  /\ lazyplug_work' = queue_delayed_work(lazyplug_work, 0)
  /\ fb_pc' = "idle"
  /\ cmds' = << >>
  /\ cmd_by' = "none"
  /\ UNCHANGED << params, counters, suspended, lazyvars, lookupvars, online,
                  workvars, hist,
                  hotplug_fail, ctrl_todo >>

\* --------------------------------------------------- lazyplug_enter_lazy

\* enter && !lazymode: save the selector, switch to the lazy profile, take
\* cpus 7..2 down.
EnterLazy ==
  /\ Lnr_run_profile_sel' = nr_run_profile_sel
  /\ sel_before_lazy' = nr_run_profile_sel
  /\ nr_run_profile_sel' = LAZY_PROFILE
  /\ lazymode' = TRUE
  /\ cmds' = lazy_down
  /\ cmd_by' = "lazy"
  /\ online' = Apply(online, lazy_down)
  /\ UNCHANGED << cac_bool, lazyplug_cac >>

\* Leaving lazy mode with the selector left at the lazy profile.
ExitLazy_keeps_profile ==
  /\ lazymode' = FALSE
  /\ cac_bool' = TRUE
  /\ lazyplug_cac' = queue_delayed_work(lazyplug_cac, 10)
  /\ cmds' = << >>
  /\ cmd_by' = "none"
  /\ UNCHANGED << nr_run_profile_sel, Lnr_run_profile_sel, sel_before_lazy, online >>

\* !enter && lazymode: restore the selector, queue the forced-online pass.
ExitLazy ==
  /\ nr_run_profile_sel' = Lnr_run_profile_sel
  /\ lazymode' = FALSE
  /\ cac_bool' = TRUE
  /\ lazyplug_cac' = queue_delayed_work(lazyplug_cac, 10)
  /\ cmds' = << >>
  /\ cmd_by' = "none"
  /\ UNCHANGED << Lnr_run_profile_sel, sel_before_lazy, online >>

\* The call entering lazy mode again whenever it is asked to (no !lazymode test).
lazyplug_enter_lazy_again(enter) ==
  /\ nr_events < MaxEvents
  /\ nr_events' = nr_events + 1
  /\ IF enter
       THEN EnterLazy
       ELSE IF lazymode
         THEN ExitLazy
         ELSE /\ cmds' = << >>
              /\ cmd_by' = "none"
              /\ UNCHANGED << nr_run_profile_sel, lazyvars, cac_bool, lazyplug_cac, online >>
  /\ UNCHANGED << lazyplug_active, nr_possible_cores, nr_run_hysteresis, counters,
                  suspended, lookupvars, lazyplug_work, cpu_all_up_work, workvars,
                  fb_pc, nr_ticks, nr_lookups,
                  hotplug_fail, ctrl_todo >>

\* The whole call, under lazymode_mutex.
lazyplug_enter_lazy(enter) ==
  /\ nr_events < MaxEvents
  /\ nr_events' = nr_events + 1
  /\ IF enter /\ ~lazymode
       THEN EnterLazy
       ELSE IF ~enter /\ lazymode
         THEN ExitLazy
         ELSE /\ cmds' = << >>
              /\ cmd_by' = "none"
              /\ UNCHANGED << nr_run_profile_sel, lazyvars, cac_bool, lazyplug_cac, online >>
  /\ UNCHANGED << lazyplug_active, nr_possible_cores, nr_run_hysteresis, counters,
                  suspended, lookupvars, lazyplug_work, cpu_all_up_work, workvars,
                  fb_pc, nr_ticks, nr_lookups,
                  hotplug_fail, ctrl_todo >>

\* ------------------------------------------------------- module parameters

ParamFrame ==
  /\ nr_events < MaxEvents
  /\ nr_events' = nr_events + 1
  /\ cmds' = << >>
  /\ cmd_by' = "none"
  /\ UNCHANGED << counters, suspended, cac_bool, lazyvars, lookupvars, online,
                  lazyplug_work, lazyplug_cac, cpu_all_up_work, workvars, fb_pc,
                  nr_ticks, nr_lookups,
                  hotplug_fail, ctrl_todo >>

\* module_param(lazyplug_active, uint, 0664)
WriteActive(v) ==
  /\ lazyplug_active' = v
  /\ UNCHANGED << nr_run_profile_sel, nr_possible_cores, nr_run_hysteresis >>
  /\ ParamFrame

\* module_param(nr_run_profile_sel, uint, 0664)
WriteProfileSel(v) ==
  /\ nr_run_profile_sel' = v
  /\ UNCHANGED << lazyplug_active, nr_possible_cores, nr_run_hysteresis >>
  /\ ParamFrame

\* module_param(nr_possible_cores, uint, 0660)
WritePossibleCores(v) ==
  /\ nr_possible_cores' = v
  /\ UNCHANGED << lazyplug_active, nr_run_profile_sel, nr_run_hysteresis >>
  /\ ParamFrame

\* ------------------------------------------------------------ specification

Next ==
  \/ \E avg \in Samples : nr_ticks < MaxTicks /\ WorkStart(avg)
  \/ WorkRead
  \/ WorkDecide
  \/ WorkAct
  \/ lazyplug_cac_fn
  \/ cpu_all_up
  \/ FbPowerdown
  \/ SuspendFlush
  \/ SuspendSet
  \/ SuspendQueue
  \/ FbUnblank
  \/ ResumeQueue
  \/ \E enter \in BOOLEAN : lazyplug_enter_lazy(enter)
  \/ \E v \in ActiveWrites : WriteActive(v)
  \/ \E v \in ProfileWrites : WriteProfileSel(v)
  \/ \E v \in CoreWrites : WritePossibleCores(v)

Spec == Init /\ [][Next]_vars

\* ---------------------------------------------------- the lookup on its own

\* The hysteresis values lazyplug_init chooses among.
HysteresisValues ==
  { NR_RUN_HYSTERESIS_DUAL, NR_RUN_HYSTERESIS_QUAD,
    NR_RUN_HYSTERESIS_HEXA, NR_RUN_HYSTERESIS_OCTA }

\* The tiers nr_run_last takes: 0 before the first lookup, then 1 .. 4.
LastTiers == 0 .. Len(nr_run_thresholds_balance)

\* The thresholds of a table before its sentinel.
FiniteThresholds(sel) ==
  { nr_run_profiles[sel + 1][i] : i \in 1 .. (Len(nr_run_profiles[sel + 1]) - 1) }

\* Samples at and next to every comparison value of a profile, and the extremes.
EvalSamples(sel, hyst) ==
  { 0, 2^20 } \cup
  UNION { { ShiftLeft(t, sel), ShiftLeft(t, sel) + 1,
            ShiftLeft(t + hyst, sel), ShiftLeft(t + hyst, sel) + 1 } :
          t \in FiniteThresholds(sel) }

InitEval ==
  \E sel \in Profiles, hyst \in HysteresisValues, last \in LastTiers :
    Configured(1, sel, NR_CPUS, hyst, 0, FALSE, FALSE, last, 0, CPUs)

\* calculate_thread_stats() called with a sample: the result becomes nr_run_last.
Lookup(avg) ==
  /\ nr_lookups < MaxLookups
  /\ nr_lookups' = nr_lookups + 1
  /\ avg_nr_run' = avg
  /\ last_before' = nr_run_last
  /\ nr_run_last' = calculate_thread_stats(nr_run_profile_sel, nr_run_last,
                                           nr_run_hysteresis, avg)
  /\ UNCHANGED << params, counters, suspended, cac_bool, lazyvars, online,
                  lazyplug_work, lazyplug_cac, cpu_all_up_work, workvars, fb_pc,
                  cmds, cmd_by, nr_ticks, nr_events, hotplug_fail, ctrl_todo >>

NextEval ==
  \E avg \in EvalSamples(nr_run_profile_sel, nr_run_hysteresis) : Lookup(avg)

SpecEval == InitEval /\ [][NextEval]_vars

\* The shifted threshold that separates tier k - 1 from tier k.
Boundary(sel, k) == ShiftLeft(nr_run_profiles[sel + 1][k - 1], sel)

\* The tiers above the lowest that the lookup assigns under a profile.
UpperTiers(sel) == 2 .. threshold_size(sel)

\* C1 as claimed: with previous tier k a sample exactly on the boundary of
\* k - 1 and k does not drop below k, and with previous tier k - 1 it gives k - 1.
C1_AsClaimed ==
  nr_lookups > 0 =>
    \A k \in UpperTiers(nr_run_profile_sel) :
      avg_nr_run = Boundary(nr_run_profile_sel, k) =>
        /\ last_before = k => nr_run_last >= k
        /\ last_before = k - 1 => nr_run_last = k - 1

\* C1 amended: the band lies above the boundary.  A sample exactly on the
\* boundary of k - 1 and k gives k - 1 from previous tier k and from k - 1; a
\* sample one above the boundary stays at or above k from previous tier k and
\* gives k - 1 from previous tier k - 1.
C1_BandAboveBoundary ==
  nr_lookups > 0 =>
    \A k \in UpperTiers(nr_run_profile_sel) :
      /\ (avg_nr_run = Boundary(nr_run_profile_sel, k) /\ last_before \in { k - 1, k })
           => nr_run_last = k - 1
      /\ (avg_nr_run = Boundary(nr_run_profile_sel, k) + 1 /\ last_before = k)
           => nr_run_last >= k
      /\ (avg_nr_run = Boundary(nr_run_profile_sel, k) + 1 /\ last_before = k - 1)
           => nr_run_last = k - 1

\* A lookup from previous tier 3 with the sample one above the boundary of
\* tiers 2 and 3 has kept tier 3.
C1_Witness ==
  /\ nr_lookups > 0
  /\ last_before = 3
  /\ avg_nr_run = Boundary(nr_run_profile_sel, 3) + 1
  /\ nr_run_last = 3

\* Whether a sample exceeds every finite threshold raised by `margin`, shifted.
AboveAll(sel, avg, margin) ==
  \A t \in FiniteThresholds(sel) : avg > ShiftLeft(t + margin, sel)

\* C2 as claimed: sample 0 gives the lowest tier, and a sample above every
\* finite shifted threshold of the profile gives the profile's highest tier.
C2_AsClaimed ==
  nr_lookups > 0 =>
    /\ avg_nr_run = 0 => nr_run_last = 1
    /\ AboveAll(nr_run_profile_sel, avg_nr_run, 0)
         => nr_run_last = threshold_size(nr_run_profile_sel)

\* C2 amended: sample 0 gives the lowest tier, and a sample above every finite
\* threshold plus the hysteresis, shifted, gives the highest tier the lookup
\* assigns under the profile (threshold_size: 4 for selectors 0..2, 2 from 3 on).
C2_Extremes ==
  nr_lookups > 0 =>
    /\ avg_nr_run = 0 => nr_run_last = 1
    /\ AboveAll(nr_run_profile_sel, avg_nr_run, nr_run_hysteresis)
         => nr_run_last = threshold_size(nr_run_profile_sel)

\* A lookup from the lowest tier with a sample just above every raised
\* threshold of a 4-tier profile has reached tier 4.
C2_Witness ==
  /\ nr_lookups > 0
  /\ last_before = 1
  /\ nr_run_profile_sel < NR_RUN_ECO_MODE_PROFILE
  /\ AboveAll(nr_run_profile_sel, avg_nr_run, nr_run_hysteresis)
  /\ avg_nr_run < 2^20
  /\ nr_run_last = 4

\* ------------------------------------------------ the administrative cap

\* The last tier and the idle count together, as periodic runs leave them.
TierAndIdle == { << 0, 0 >>, << 2, 0 >>, << 4, 0 >>, << 1, DEF_IDLE_COUNT - 1 >> }

\* Eight cores online and nr_possible_cores lowered to 4; one periodic run.
InitCap ==
  \E sel \in ProfileWrites, susp \in BOOLEAN, lazy \in BOOLEAN, ti \in TierAndIdle,
     persist \in { 0, BUSY_PERSISTENCE } :
    Configured(1, IF lazy THEN LAZY_PROFILE ELSE sel, 4, NR_RUN_HYSTERESIS_OCTA,
               persist, susp, lazy, ti[1], ti[2], CPUs)

NextCap ==
  \/ \E avg \in Samples : nr_ticks < 1 /\ WorkStart(avg)
  \/ WorkRead
  \/ WorkDecide
  \/ WorkAct

SpecCap == InitCap /\ [][NextCap]_vars

\* C3 as claimed: the run that finds eight cores online and the cap at 4
\* requests cpus 7, 6, 5, 4 down in that order, and when it ends cpus 0..3 are
\* online and cpus 4..7 offline, for every sample, suspended or not.
C3_AsClaimed ==
  nr_ticks = 1 =>
    /\ work_pc = "decide" => cmds = << Down(7), Down(6), Down(5), Down(4) >>
    /\ work_pc = "idle" => online = 0 .. 3

\* --------------------------------------------- suspend followed by resume

\* An active controller, lazy mode off, nr_possible_cores = NR_CPUS, with every
\* core online or with the cores the idle path leaves.
InitRoundTrip ==
  \E sel \in ProfileWrites, ti \in TierAndIdle, persist \in { 0, 5 },
     mask \in { CPUs, { 0, 1 } } :
    Configured(1, sel, NR_CPUS, NR_RUN_HYSTERESIS_OCTA, persist, FALSE, FALSE,
               ti[1], ti[2], mask)

\* FB_BLANK_POWERDOWN, then FB_BLANK_UNBLANK, and the work items in any order.
NextRoundTrip ==
  \/ \E avg \in Samples : nr_ticks < MaxTicks /\ WorkStart(avg)
  \/ WorkRead
  \/ WorkDecide
  \/ WorkAct
  \/ lazyplug_cac_fn
  \/ cpu_all_up
  \/ nr_events = 0 /\ FbPowerdown
  \/ SuspendFlush
  \/ SuspendSet
  \/ SuspendQueue
  \/ nr_events = 1 /\ FbUnblank
  \/ ResumeQueue

SpecRoundTrip == InitRoundTrip /\ [][NextRoundTrip]_vars

\* lazyplug_resume has returned and the forced-scale work it queued has run.
ForcedWorkDone ==
  /\ nr_events = 2
  /\ fb_pc = "idle"
  /\ lazyplug_cac = "none"
  /\ ~cpu_all_up_work

IdleRuns == DEF_IDLE_COUNT + 1

\* idle_count = 0 and persist_count = 0, every core online, suspended or not.
InitIdle ==
  \E sel \in Profiles, susp \in BOOLEAN, last \in LastTiers :
    Configured(1, sel, NR_CPUS, NR_RUN_HYSTERESIS_OCTA, 0, susp, FALSE, last, 0, CPUs)

\* The sample gives the lowest tier.
LowestTier(avg) ==
  calculate_thread_stats(nr_run_profile_sel, nr_run_last, nr_run_hysteresis, avg) = 1

\* Consecutive periodic runs that each compute the lowest tier.
NextIdle ==
  \/ \E avg \in Samples : nr_ticks < IdleRuns /\ LowestTier(avg) /\ WorkStart(avg)
  \/ WorkRead
  \/ WorkDecide
  \/ WorkAct

SpecIdle == InitIdle /\ [][NextIdle]_vars

\* C6 as claimed: with suspended = true the 19th lowest-tier run requests
\* cpus 7..2 down, and no earlier run does.
C6_AsClaimed ==
  suspended =>
    /\ cmd_by = "idle" => nr_ticks >= DEF_IDLE_COUNT
    /\ (nr_ticks = DEF_IDLE_COUNT /\ work_pc = "idle")
         => cmd_by = "idle" /\ cmds = idle_down

\* C6 amended: with suspended = false, idle_count = 0 and persist_count = 0, the
\* 19th consecutive lowest-tier run requests cpus 7..2 down and no earlier run
\* does; with suspended = true no run requests anything.
C6_IdleShutdown ==
  /\ ~suspended =>
       /\ cmd_by = "idle" => nr_ticks >= DEF_IDLE_COUNT
       /\ nr_ticks < DEF_IDLE_COUNT => online = CPUs
       /\ (nr_ticks = DEF_IDLE_COUNT /\ work_pc = "idle")
            => cmd_by = "idle" /\ cmds = idle_down /\ online = { 0, 1 }
  /\ suspended => cmds = << >> /\ online = CPUs /\ idle_count = 0 /\ persist_count = 0

\* The 19th run has just taken cpus 7..2 down.
C6_Witness ==
  /\ ~suspended
  /\ nr_ticks = DEF_IDLE_COUNT
  /\ work_pc = "idle"
  /\ idle_count = DEF_IDLE_COUNT
  /\ cmd_by = "idle"
  /\ online = { 0, 1 }

\* ---------------------------------------------------------------- lazy mode

\* C5: whenever lazy mode is left, the selector becomes the one that was active
\* when lazy mode was entered, whatever ran in between.
C5_LazyRoundTrip ==
  [][(lazymode /\ ~lazymode') => nr_run_profile_sel' = sel_before_lazy]_vars

\* Lazy mode was entered with the eco profile selected and left again; in between
\* a periodic run computed the second tier and brought cpus 2 and 3 back.
C5_Witness ==
  /\ ~lazymode
  /\ Lnr_run_profile_sel = NR_RUN_ECO_MODE_PROFILE
  /\ sel_before_lazy = NR_RUN_ECO_MODE_PROFILE
  /\ nr_run_profile_sel = NR_RUN_ECO_MODE_PROFILE
  /\ nr_run_last = 2
  /\ nr_ticks > 0
  /\ online = 0 .. 3

\* The requests of the last step that bring a core online.
UpRequests == { i \in 1 .. Len(cmds) : cmds[i][1] = "up" }

\* C7 as claimed: no step taken while the suspended flag is set requests a core
\* online.
C7_AsClaimed == suspended => UpRequests = {}

\* C8 as claimed: whenever lazymode is set the selector is the lazy profile, and
\* the step that entered lazy mode requested cpus 7..2 down.
C8_AsClaimed ==
  /\ lazymode => nr_run_profile_sel = LAZY_PROFILE
  /\ cmd_by = "lazy" => cmds = DownFrom(nr_cpu_ids - 1, 2)

\* ------------------------------------------------------------ the last tier

\* C9 as claimed, read with the tiers the code counts from 1 and the value 0
\* held before the first lookup: nr_run_last is never above the number of tiers
\* of the profile now selected.
C9_AsClaimed ==
  nr_run_profile_sel \in Profiles
    => nr_run_last \in 0 .. threshold_size(nr_run_profile_sel)

\* C9 amended: nr_run_last is 0 or a tier of the largest profile, and every
\* lookup of an active controller leaves a tier of the profile it was made with.
C9_TierAfterLookup ==
  /\ [](nr_run_last \in LastTiers)
  /\ [][(nr_ticks' # nr_ticks /\ lazyplug_active # 0 /\ nr_run_profile_sel \in Profiles)
          => nr_run_last' \in 1 .. threshold_size(nr_run_profile_sel)]_vars

\* A lookup with a two-tier profile has just replaced tier 4 by tier 2.
C9_Witness ==
  /\ work_pc = "decide"
  /\ threshold_size(nr_run_profile_sel) = 2
  /\ last_before = 4
  /\ nr_run_last = 2

\* --------------------------------------------------------- the persistence

\* C10 as claimed: persist_count is never negative, grows only by being set to
\* BUSY_PERSISTENCE, and the idle path requests nothing while it is positive.
C10_AsClaimed ==
  /\ [](persist_count >= 0 /\ (cmd_by = "idle" => persist_count = 0))
  /\ [][persist_count' > persist_count => persist_count' = BUSY_PERSISTENCE]_vars

\* ------------------------------------------------------------ the idle count

\* The step is the decision section of a periodic run.
Decision == work_pc = "count" /\ work_pc' # "count"

\* idle_count grows only in the decision of a run that computed the lowest tier.
IdleGrowsOnlyWhenIdle == idle_count' > idle_count => Decision /\ cpu_count = 1

\* A run reaches its decision only after it found suspended false.
DecisionOnlyWhenAwake == (work_pc # "count" /\ work_pc' = "count") => ~suspended

\* C11 as claimed: every run that computed a tier above the lowest leaves
\* idle_count = 0, suspended or not, and idle_count grows only in a run that
\* computed the lowest tier and found suspended false.
C11_AsClaimed ==
  /\ [][(work_pc = "decide" /\ work_pc' = "idle" /\ cpu_count > 1) => idle_count' = 0]_vars
  /\ [][(Decision /\ cpu_count > 1) => idle_count' = 0]_vars
  /\ [][IdleGrowsOnlyWhenIdle]_vars
  /\ [][DecisionOnlyWhenAwake]_vars

\* The value a run that loaded i stores into idle_count.
OneMore(i) == IF i < DEF_IDLE_COUNT THEN i + 1 ELSE i

\* C11 amended: a run that found suspended false leaves idle_count = 0 when it
\* computed a tier above the lowest, and when it computed the lowest it stores
\* one more (up to DEF_IDLE_COUNT) than a value of idle_count it loaded, the
\* one in memory or one loaded before a concurrent unblank event reset it; a run
\* that found suspended true leaves idle_count as it was; nothing else makes
\* idle_count grow.
C11_IdleCount ==
  /\ [][Decision =>
          IF cpu_count > 1
            THEN idle_count' = 0
            ELSE idle_count' \in { idle_count, OneMore(idle_count), OneMore(idle_read) }]_vars
  /\ [][(work_pc = "decide" /\ work_pc' = "idle") => (suspended /\ UNCHANGED idle_count)]_vars
  /\ [][IdleGrowsOnlyWhenIdle]_vars
  /\ [][DecisionOnlyWhenAwake]_vars

\* The first run after a series of idle runs computed a higher tier and cleared
\* the idle count.
C11_Witness ==
  /\ work_pc = "up"
  /\ ~suspended
  /\ nr_ticks = 1
  /\ nr_events = 0
  /\ last_before = 1
  /\ cpu_count > 1
  /\ idle_count = 0

\* ------------------------------------------------------- the periodic loop

\* The timer of lazyplug_work fires and the workqueue runs the work to its end.
TickFairness ==
  /\ WF_vars(\E avg \in Samples : nr_ticks < MaxTicks /\ WorkStart(avg))
  /\ WF_vars(WorkRead)
  /\ WF_vars(WorkDecide)
  /\ WF_vars(WorkAct)

\* The periodic run with the display events, lazy mode and the enable switch
\* around it, from boot.
InitLoop == Booted(0)

NextLoop ==
  \/ \E avg \in Samples : nr_ticks < MaxTicks /\ WorkStart(avg)
  \/ WorkRead
  \/ WorkDecide
  \/ WorkAct
  \/ lazyplug_cac_fn
  \/ cpu_all_up
  \/ FbPowerdown
  \/ SuspendFlush
  \/ SuspendSet
  \/ SuspendQueue
  \/ FbUnblank
  \/ ResumeQueue
  \/ \E enter \in BOOLEAN : lazyplug_enter_lazy(enter)
  \/ \E v \in ActiveWrites : WriteActive(v)

SpecLoop == InitLoop /\ [][NextLoop]_vars /\ TickFairness

\* C12: whenever no periodic run is executing one is pending, so that runs keep
\* coming (up to the bound of the model); and a pending lazyplug_work stays as
\* it is until a run takes it: neither lazyplug_resume nor the end of a run
\* queues it a second time or gives it another timer.
C12_LoopNeverStops ==
  /\ [](work_pc = "idle" => lazyplug_work # "none")
  /\ [][(lazyplug_work # "none" /\ nr_ticks' = nr_ticks) => UNCHANGED lazyplug_work]_vars
  /\ <>(nr_ticks = MaxTicks)

\* A disabled and suspended controller has just finished a run, the last the
\* model follows, and the next one is pending.
C12_Witness ==
  /\ nr_ticks = MaxTicks
  /\ lazyplug_active = 0
  /\ suspended
  /\ work_pc = "idle"
  /\ lazyplug_work = "timer"

\* ------------------------------------------------------------ the boot core

\* The smallest values nr_possible_cores can be written to.
LowCaps == { 0, 1 }

\* Every way the driver requests a core offline, with nr_possible_cores written
\* down to 0 or 1.
InitReserve ==
  \E cores \in LowCaps \cup { NR_CPUS } :
    Configured(1, 0, cores, NR_RUN_HYSTERESIS_OCTA, 0, FALSE, FALSE, 1,
               DEF_IDLE_COUNT - 1, CPUs)

NextReserve ==
  \/ \E avg \in Samples : nr_ticks < MaxTicks /\ WorkStart(avg)
  \/ WorkRead
  \/ WorkDecide
  \/ WorkAct
  \/ lazyplug_cac_fn
  \/ cpu_all_up
  \/ FbPowerdown
  \/ SuspendFlush
  \/ SuspendSet
  \/ SuspendQueue
  \/ FbUnblank
  \/ ResumeQueue
  \/ \E enter \in BOOLEAN : lazyplug_enter_lazy(enter)
  \/ \E v \in LowCaps : WritePossibleCores(v)

SpecReserve == InitReserve /\ [][NextReserve]_vars

\* C13: no step requests cpu 0 offline, and cpu 0 stays online.
C13_BootCoreStays ==
  /\ \A i \in 1 .. Len(cmds) : cmds[i] # Down(0)
  /\ 0 \in online

\* set_cpus with nr_possible_cores = 0 has just taken every core but cpu 0 down.
C13_Witness ==
  /\ nr_possible_cores = 0
  /\ cmd_by = "set_cpus"
  /\ cmds = DownFrom(nr_cpu_ids - 1, 1)
  /\ online = { 0 }

\* ------------------------------------------------------- set_cpus on its own

\* Calls of set_cpus in a row.
CapRuns == 2

\* Online masks (cpu 0 is always online) and values of nr_possible_cores.
OnlineMasks == { m \in SUBSET CPUs : 0 \in m }
Caps == 0 .. NR_CPUS + 1

InitSetCpus ==
  \E mask \in OnlineMasks, cores \in Caps :
    Configured(1, 0, cores, NR_RUN_HYSTERESIS_OCTA, 0, FALSE, FALSE, 0, 0, mask)

\* set_cpus() called with the online mask and nr_possible_cores as they are.
EnforceCap ==
  /\ nr_ticks < CapRuns
  /\ nr_ticks' = nr_ticks + 1
  /\ cmds' = set_cpus(online, nr_possible_cores)
  /\ cmd_by' = "set_cpus"
  /\ online' = Apply(online, cmds')
  /\ UNCHANGED << params, counters, suspended, cac_bool, lazyvars, lookupvars,
                  lazyplug_work, lazyplug_cac, cpu_all_up_work, workvars, fb_pc,
                  last_before, sel_before_lazy, nr_events, nr_lookups,
                  hotplug_fail, ctrl_todo >>

NextSetCpus == EnforceCap

SpecSetCpus == InitSetCpus /\ [][NextSetCpus]_vars

\* The larger of nr_possible_cores and 1.
CapFloor == IF nr_possible_cores > 1 THEN nr_possible_cores ELSE 1

\* C14: after set_cpus no online core has an index at or above
\* max(nr_possible_cores, 1), and a second call right after the first requests
\* nothing and leaves the online mask as it is.
C14_Idempotent ==
  /\ [](nr_ticks >= 1 => \A cpu \in online : cpu < CapFloor)
  /\ [][nr_ticks >= 1 => (cmds' = << >> /\ online' = online)]_vars

\* The first call took cores down with the cap at 4 and the second call has run.
C14_Witness ==
  /\ nr_ticks = CapRuns
  /\ nr_possible_cores = 4
  /\ online = { 0, 2, 3 }
  /\ cmds = << >>

\* ------------------------------------------------------ re-entrant lazy calls

\* lazyplug_enter_lazy(true) while lazymode is set, or (false) while it is clear.
ReentrantLazyCall == \E enter \in BOOLEAN : (enter <=> lazymode) /\ lazyplug_enter_lazy(enter)

\* C15: a re-entrant call leaves lazymode, the selector, the saved selector and
\* the online mask as they are, requests nothing and queues no forced-scale work.
C15_ReentrantNoOp ==
  [][ReentrantLazyCall
       => /\ UNCHANGED << lazymode, nr_run_profile_sel, Lnr_run_profile_sel, online,
                          cac_bool, lazyplug_cac, cpu_all_up_work >>
          /\ cmds' = << >>]_vars

\* Lazy mode was entered from the eco profile and lazyplug_enter_lazy(true) was
\* called again: the saved selector is still the eco profile.
C15_Witness ==
  /\ lazymode
  /\ nr_events = 3
  /\ nr_ticks = 0
  /\ fb_pc = "idle"
  /\ lazyplug_active = 1
  /\ Lnr_run_profile_sel = NR_RUN_ECO_MODE_PROFILE
  /\ nr_run_profile_sel = LAZY_PROFILE
  /\ nr_possible_cores = NR_CPUS
  /\ cmds = << >>
  /\ online = { 0, 1 }

\* ------------------------------------------------- the forced pass of suspend

\* C16 as claimed: the lazyplug_cac that lazyplug_suspend queued (the only one
\* queued without delay), when it runs with the controller still suspended,
\* requests cpus 7..2 offline, whatever else wrote cac_bool in between.
C16_AsClaimed ==
  [][(suspended /\ lazyplug_cac = "queued" /\ cmd_by' = "cac")
       => cmds' = DownFrom(nr_cpu_ids - 1, 2)]_vars

\* ------------------------------------------------------------------- resume

\* C17 as claimed: every FB_BLANK_UNBLANK event, whatever lazyplug_active is,
\* leaves suspended = false and persist_count = BUSY_PERSISTENCE.
C17_AsClaimed ==
  [][FbUnblank => (~suspended' /\ persist_count' = BUSY_PERSISTENCE)]_vars

\* --------------------------------------------------------------- the mutex

\* The run has tested suspended and has not yet finished what it decided.
InDecisionSection == work_pc \in { "count", "down", "up" }

\* The locked section of lazyplug_suspend or of lazyplug_resume.
PowerTransition ==
  \/ fb_pc = "lock" /\ fb_pc' # "lock"
  \/ fb_pc = "idle" /\ fb_pc' = "resume"

\* C18 as claimed: the decision section of a periodic run never overlaps the
\* locked section of suspend or resume, and the run's store to persist_count
\* starts from the value in memory, so that no write of resume is lost.
C18_AsClaimed ==
  /\ [][PowerTransition => ~InDecisionSection]_vars
  /\ [][Decision => persist_count' = (IF persist_count > 0 THEN persist_count - 1
                                      ELSE persist_count)]_vars

\* ------------------------------------------------------------- no deadlock

\* An idle sample and a saturated one.  A periodic run that is queued without
\* delay runs even past the bound on the runs the model follows: flush_workqueue
\* waits for it.
LiveSamples == { 0, 2^20 }

\* Periodic runs that begin from the timer.
LiveRuns == 1

NextLive ==
  \/ \E avg \in LiveSamples :
       (nr_ticks < LiveRuns \/ lazyplug_work = "queued") /\ WorkStart(avg)
  \/ WorkRead
  \/ WorkDecide
  \/ WorkAct
  \/ lazyplug_cac_fn
  \/ cpu_all_up
  \/ FbPowerdown
  \/ SuspendFlush
  \/ SuspendSet
  \/ SuspendQueue
  \/ FbUnblank
  \/ ResumeQueue
  \/ \E enter \in BOOLEAN : lazyplug_enter_lazy(enter)

\* The workqueues run what is queued on them, a run of lazyplug_work_fn goes on
\* to its end, and the notifier thread goes on whenever it is not blocked.
LiveFairness ==
  /\ WF_vars(\E avg \in LiveSamples : lazyplug_work = "queued" /\ WorkStart(avg))
  /\ WF_vars(WorkRead)
  /\ WF_vars(WorkDecide)
  /\ WF_vars(WorkAct)
  /\ WF_vars(lazyplug_cac_fn)
  /\ WF_vars(cpu_all_up)
  /\ WF_vars(SuspendFlush)
  /\ WF_vars(SuspendSet)
  /\ WF_vars(SuspendQueue)
  /\ WF_vars(ResumeQueue)

SpecLive == InitLoop /\ [][NextLive]_vars /\ LiveFairness

C20_AsClaimed == lazymode => cmd_by \notin { "work_up", "idle" }

\* C20 amended: a periodic run that finds lazymode set keeps deciding: for a
\* tier above the lowest it requests cpus 1, 2, 3 online and no other, and its
\* idle path requests cpus 7..2 offline as it does outside lazy mode.
C20_LazyScaling ==
  lazymode =>
    /\ cmd_by = "work_up" => cmds = << Up(1), Up(2), Up(3) >>
    /\ cmd_by = "idle" => cmds = DownFrom(7, 2)

\* A periodic run in lazy mode has just brought cpus 2 and 3 back.
C20_Witness ==
  /\ lazymode
  /\ nr_run_profile_sel = LAZY_PROFILE
  /\ cmd_by = "work_up"
  /\ online = 0 .. 3

\* ------------------------------------------- idle shutdown after a resume

\* Periodic runs the scenario follows: the persistence countdown and one more.
PersistRuns == BUSY_PERSISTENCE + 1

\* A suspended controller: cpus 7..2 taken down by the suspend pass, the
\* counters as the runs before the suspend left them.
InitPersist ==
  \E sel \in Profiles, last \in LastTiers, idle \in IdleStarts :
    Configured(1, sel, NR_CPUS, NR_RUN_HYSTERESIS_OCTA, 0, TRUE, FALSE, last, idle,
               { 0, 1 })

\* The unblank event, the works lazyplug_resume schedules, and after it
\* periodic runs that each compute the lowest tier.
NextPersist ==
  \/ suspended /\ FbUnblank
  \/ ResumeQueue
  \/ lazyplug_cac_fn
  \/ cpu_all_up
  \/ \E avg \in Samples :
       ~suspended /\ nr_ticks < PersistRuns /\ LowestTier(avg) /\ WorkStart(avg)
  \/ WorkRead
  \/ WorkDecide
  \/ WorkAct

SpecPersist == InitPersist /\ [][NextPersist]_vars

\* C21 as claimed: after the resume idle_count stays 0 while persist_count is
\* not 0, and the idle path is not taken before the idle threshold has passed
\* once more after the countdown has ended.
C21_AsClaimed ==
  ~suspended =>
    /\ persist_count > 0 => idle_count = 0
    /\ cmd_by = "idle" => nr_ticks >= BUSY_PERSISTENCE + DEF_IDLE_COUNT - 1

Least(a, b) == IF a < b THEN a ELSE b

\* C21 amended: after a resume, n lowest-tier runs leave idle_count at the
\* lesser of n and DEF_IDLE_COUNT and persist_count at BUSY_PERSISTENCE - n or
\* 0: the idle count advances while the countdown is running.  A run takes the
\* idle path exactly when it is the BUSY_PERSISTENCE-th run or a later one, and
\* then requests cpus 7..2 down.
C21_ShutdownAfterResume ==
  /\ [](~suspended =>
          /\ work_pc = "idle" =>
               /\ idle_count = Least(nr_ticks, DEF_IDLE_COUNT)
               /\ persist_count = BUSY_PERSISTENCE - Least(nr_ticks, BUSY_PERSISTENCE)
          /\ cmd_by = "idle" =>
               /\ nr_ticks >= BUSY_PERSISTENCE
               /\ cmds = DownFrom(7, 2)
               /\ persist_count = 0
               /\ idle_count = DEF_IDLE_COUNT)
  /\ [][Decision => (work_pc' = "down" <=> nr_ticks >= BUSY_PERSISTENCE)]_vars

\* The BUSY_PERSISTENCE-th run after the resume has just taken cpus 7..2 down,
\* the idle count having been full since the DEF_IDLE_COUNT-th run.
C21_Witness ==
  /\ nr_events = 1
  /\ nr_ticks = BUSY_PERSISTENCE
  /\ persist_count = 0
  /\ idle_count = DEF_IDLE_COUNT
  /\ cmd_by = "idle"
  /\ online = { 0, 1 }

\* --------------------------------------------------- failing hotplug requests

\* Periodic runs followed after the failed pass.
FailRuns == 2

\* The cpus whose requests fail for a while.
FailSets == { { 5 }, { 2, 5 }, 2 .. 7 }

\* An active controller under the cap, every core under it online.
InitFail ==
  \E cores \in CoreWrites, idle \in IdleStarts :
    Configured(1, 0, cores, NR_RUN_HYSTERESIS_OCTA, 0, FALSE, FALSE,
               IF idle = 0 THEN 0 ELSE 1, idle, 0 .. (cores - 1))

\* cpu_up() and cpu_down() begin to return an error for some cpus (a busy
\* notifier chain, a core pinned by another driver).
HotplugFails(failing) ==
  /\ hotplug_fail = { }
  /\ nr_events = 0
  /\ hotplug_fail' = failing
  /\ cmds' = << >>
  /\ cmd_by' = "none"
  /\ UNCHANGED << params, counters, suspended, cac_bool, lazyvars, lookupvars, online,
                  lazyplug_work, lazyplug_cac, cpu_all_up_work, workvars, fb_pc,
                  hist, ctrl_todo >>

\* The pass of the suspend or of the entry into lazy mode is over.
PassOver ==
  /\ nr_events = 1
  /\ fb_pc = "idle"
  /\ lazyplug_cac = "none"

\* The requests succeed again once the pass is over.
HotplugRecovers ==
  /\ hotplug_fail # { }
  /\ PassOver
  /\ hotplug_fail' = { }
  /\ cmds' = << >>
  /\ cmd_by' = "none"
  /\ UNCHANGED << params, counters, suspended, cac_bool, lazyvars, lookupvars, online,
                  lazyplug_work, lazyplug_cac, cpu_all_up_work, workvars, fb_pc,
                  hist, ctrl_todo >>

\* One suspend or one entry into lazy mode while requests fail, then periodic
\* runs with the requests succeeding again.
NextFail ==
  \/ \E failing \in FailSets : HotplugFails(failing)
  \/ HotplugRecovers
  \/ nr_events = 0 /\ FbPowerdown
  \/ SuspendFlush
  \/ SuspendSet
  \/ SuspendQueue
  \/ lazyplug_cac_fn
  \/ nr_events = 0 /\ lazyplug_enter_lazy(TRUE)
  \/ \E avg \in Samples :
       /\ PassOver
       /\ hotplug_fail = { }
       /\ nr_ticks < FailRuns
       /\ WorkStart(avg)
  \/ WorkRead
  \/ WorkDecide
  \/ WorkAct

SpecFail == InitFail /\ [][NextFail]_vars

\* C22 as claimed: a periodic run that follows a suspend pass or an entry into
\* lazy mode issues again the take-offline requests that failed, so that once
\* the requests succeed and a run has finished, no core above cpu 1 is online
\* while suspended, and none above cpu 3 in lazy mode after a run that computed
\* a tier above the lowest.
C22_AsClaimed ==
  (PassOver /\ hotplug_fail = { } /\ nr_ticks > 0 /\ work_pc = "idle") =>
    /\ suspended => online \subseteq { 0, 1 }
    /\ (lazymode /\ cpu_count > 1) => online \subseteq 0 .. 3

\* ------------------------------------------------- writes to the selector

\* Values written to nr_run_profile_sel: two profiles and the first index
\* behind the table.  param_set_uint accepts any unsigned number.
SelectorWrites == ProfileWrites \cup { NrProfiles }

\* The periodic run with writes to the selector around it, from boot.
NextSelector ==
  \/ \E v \in SelectorWrites : WriteProfileSel(v)
  \/ \E avg \in Samples : nr_ticks < MaxTicks /\ WorkStart(avg)
  \/ WorkRead
  \/ WorkDecide
  \/ WorkAct

SpecSelector == InitLoop /\ [][NextSelector]_vars

\* C23 as claimed: a write of a value that names none of the seven profiles
\* leaves nr_run_profile_sel as it was, so the selector always names a profile
\* of the table and no periodic run looks up one outside it.
C23_AsClaimed == nr_run_profile_sel \in Profiles

\* ------------------------------------------------ reaching the idle shutdown

\* idle_count and persist_count at the start of an idle period: at rest, late
\* in an idle stretch, with the idle count full, right after a resume, and at
\* two points of the countdown that follows one.
IdlePeriodStarts ==
  { << 0, 0 >>, << DEF_IDLE_COUNT - 2, 0 >>, << DEF_IDLE_COUNT, 0 >>,
    << 0, BUSY_PERSISTENCE >>, << 3, BUSY_PERSISTENCE - 3 >>, << DEF_IDLE_COUNT, 5 >> }

\* An active controller, not suspended, in lazy mode or not, no forced pass
\* pending.
InitShutdown ==
  \E lazy \in BOOLEAN, start \in IdlePeriodStarts :
    \E mask \in (IF lazy THEN { 0 .. 3 } ELSE { CPUs, 0 .. 3 }) :
      Configured(1, IF lazy THEN LAZY_PROFILE ELSE 0, NR_CPUS, NR_RUN_HYSTERESIS_OCTA,
                 start[2], FALSE, lazy, 1, start[1], mask)

\* The idle period is still being followed.
IdlePeriod == nr_events = 0 /\ nr_ticks < PersistRuns

\* A periodic run of the idle period: the sample gives the lowest tier.
IdleTick(avg) == IdlePeriod /\ LowestTier(avg) /\ WorkStart(avg)

\* What ends the idle period, once it has been followed to its end: a run with
\* any sample, an unblank event with the passes it schedules, or a call of
\* lazyplug_enter_lazy.
NextShutdown ==
  \/ \E avg \in Samples : IdleTick(avg)
  \/ WorkRead
  \/ WorkDecide
  \/ WorkAct
  \/ \E avg \in Samples : nr_ticks = PersistRuns /\ WorkStart(avg)
  \/ nr_ticks >= PersistRuns /\ work_pc = "idle" /\ FbUnblank
  \/ ResumeQueue
  \/ lazyplug_cac_fn
  \/ cpu_all_up
  \/ \E enter \in BOOLEAN :
       nr_ticks >= PersistRuns /\ work_pc = "idle" /\ lazyplug_enter_lazy(enter)

\* The timer of lazyplug_work fires and the workqueue runs the work to its end.
ShutdownFairness ==
  /\ WF_vars(\E avg \in Samples : IdleTick(avg))
  /\ WF_vars(WorkRead)
  /\ WF_vars(WorkDecide)
  /\ WF_vars(WorkAct)

SpecShutdown == InitShutdown /\ [][NextShutdown]_vars /\ ShutdownFairness

\* A core above cpu 1 comes online.
CoresReturn == online \subseteq { 0, 1 } /\ ~(online' \subseteq { 0, 1 })

\* C24: in an idle period (every run computes the lowest tier, no event) the
\* idle path is eventually taken; once DEF_IDLE_COUNT runs have finished and
\* the persistence countdown has reached 0, that is after at most
\* max(DEF_IDLE_COUNT, persist_count at the start) runs, cpus 7..2 are offline
\* and stay so through every further run of the period; and cores above cpu 1
\* come back only through a run that computed a higher tier or through a
\* forced pass, which only a resume or an exit from lazy mode schedules.
C24_IdleShutdownReached ==
  /\ <>(cmd_by = "idle" /\ online = { 0, 1 } /\ nr_events = 0)
  /\ [](( /\ nr_events = 0
          /\ nr_ticks >= DEF_IDLE_COUNT
          /\ nr_ticks <= PersistRuns
          /\ persist_count = 0
          /\ work_pc = "idle" ) => online = { 0, 1 })
  /\ [][CoresReturn =>
          \/ cmd_by' = "work_up" /\ cpu_count > 1
          \/ cmd_by' \in { "cac", "all_up" } /\ nr_events > 0]_vars

\* DEF_IDLE_COUNT idle runs after a start at rest with every core online, the
\* idle path has just taken cpus 7..2 down.
C24_Witness ==
  /\ nr_events = 0
  /\ nr_ticks = DEF_IDLE_COUNT
  /\ persist_count = 0
  /\ idle_count = DEF_IDLE_COUNT
  /\ cmd_by = "idle"
  /\ online = { 0, 1 }
  /\ ~lazymode

\* ------------------------------------------------------------ constant load

\* calculate_thread_stats() called again with the sample of the last lookup.
LookupAgain == nr_lookups > 0 /\ Lookup(avg_nr_run)

\* A first lookup with any sample, then lookups with that same sample.
NextConstantLoad ==
  \/ \E avg \in EvalSamples(nr_run_profile_sel, nr_run_hysteresis) :
       nr_lookups = 0 /\ Lookup(avg)
  \/ LookupAgain

SpecConstantLoad == InitEval /\ [][NextConstantLoad]_vars

\* C25: for every profile, every previous tier, each of the four hysteresis
\* values and every sample, a lookup repeated with the same sample returns the
\* tier the lookup before it returned.
C25_ConstantLoadNeverFlaps == nr_lookups >= 2 => nr_run_last = last_before

\* Under the balance profile a sample above the boundary between tiers 2 and
\* 3, inside its hysteresis band, gave tier 2, and the repeated lookup stayed
\* at 2.
C25_Witness ==
  /\ nr_lookups = 2
  /\ nr_run_last = 2
  /\ last_before = 2
  /\ nr_run_profile_sel = 0
  /\ avg_nr_run > Boundary(0, 3)

\* ------------------------------------- cpu_all_ctrl against lazyplug_enter_lazy

\* cpu_all_up begins: cpu_all_ctrl(true) tests lazymode once, without
\* lazymode_mutex, and the loop it enters is fixed from then on.
cpu_all_up_begin ==
  /\ cpu_all_up_work
  /\ ctrl_todo = << >>
  /\ cpu_all_up_work' = FALSE
  /\ ctrl_todo' = cpu_all_ctrl(TRUE, lazymode)
  /\ cmds' = << >>
  /\ cmd_by' = "none"
  /\ UNCHANGED << params, counters, suspended, cac_bool, lazyvars, lookupvars, online,
                  lazyplug_work, lazyplug_cac, workvars, fb_pc, hist, hotplug_fail >>

\* One iteration of the loop: the next cpu_up().
cpu_all_up_step ==
  /\ ctrl_todo # << >>
  /\ cmds' = << Head(ctrl_todo) >>
  /\ cmd_by' = "all_up"
  /\ online' = Apply(online, cmds')
  /\ ctrl_todo' = Tail(ctrl_todo)
  /\ UNCHANGED << params, counters, suspended, cac_bool, lazyvars, lookupvars,
                  lazyplug_work, lazyplug_cac, cpu_all_up_work, workvars, fb_pc,
                  hist, hotplug_fail >>

\* A suspended controller outside lazy mode, cpus 7..2 taken down by the
\* suspend pass.
InitLazyRace ==
  Configured(1, 0, NR_CPUS, NR_RUN_HYSTERESIS_OCTA, 0, TRUE, FALSE, 1, 0, { 0, 1 })

\* The unblank event and the forced passes it schedules, cpu_all_up iteration
\* by iteration, with calls of lazyplug_enter_lazy in between.
NextLazyRace ==
  \/ suspended /\ FbUnblank
  \/ ResumeQueue
  \/ cpu_all_up_begin
  \/ cpu_all_up_step
  \/ lazyplug_cac_fn
  \/ \E enter \in BOOLEAN : lazyplug_enter_lazy(enter)

SpecLazyRace == InitLazyRace /\ [][NextLazyRace]_vars

\* C26 as claimed: while lazymode is set no step requests a cpu above 3
\* online, whatever the interleaving of the forced pass with
\* lazyplug_enter_lazy.
C26_AsClaimed ==
  lazymode => \A i \in UpRequests : cmds[i][2] < 4

====
